---- MODULE Spec2Model ----
(***************************************************************************)
(* Model of the process supervisor of clip-bridge (src/src/main.js): the   *)
(* IPC handlers start-server / stop-server / start-client / stop-client,   *)
(* the stream handlers that assemble and inspect the workers' log lines,   *)
(* the timers they create and the registry of connected peers.             *)
(*                                                                         *)
(* Everything runs on the single Node event loop: one action below is one  *)
(* callback run to completion.                                             *)
(***************************************************************************)
EXTENDS Integers, Sequences, FiniteSets, TLC

(* ------------------------------ bounds --------------------------------- *)
\* start closures alive at the same time (both roles together)
MaxSpawn == 2
\* stop closures alive at the same time (both roles together)
MaxStops == 2
\* largest value of the Date.now() abstraction
MaxClock == 1
\* longest unterminated fragment kept in a line buffer, in tokens
MaxFrag == 2
\* longest unterminated fragment kept in a stream buffer when the worker
\* writes single bytes
MaxPiece == 1

(* --------------------------- program constants ------------------------- *)
\* null for a process handle
Null == 0
\* delay of the connection probe, ms
ProbeDelay == 3000
\* grace period of stop-server / stop-client, ms
StopGrace == 5000
\* start-client timeout, ms
ClientTimeoutMs == 10000
\* start-server timeout, ms
ServerTimeoutMs == 60000

Pids == 1..MaxSpawn
StopIds == 1..MaxStops

(* ------------------------------ log text ------------------------------- *)
(* A text is a sequence of tokens.  A token stands for a piece of text     *)
(* that no chunk boundary of the model cuts; NL is the line terminator.    *)
NL == "\n"
ReadyToken == "Server started successfully"
ClientReadyToken == "Connected to server successfully"
ConnToken == "New WebSocket connection from "
DiscHead == "Client "
DiscTail == " disconnected"
Addrs == {"10.0.0.5", "10.0.0.6"}
DepTokens == {"ImportError", "ModuleNotFoundError"}
ErrTokens == {"ERROR:", "CRITICAL:", "Traceback", "Exception"} \cup DepTokens
Blank == " "

\* String.prototype.includes for a token
Includes(line, tok) == \E i \in 1..Len(line) : line[i] = tok

IncludesAny(line, toks) == \E i \in 1..Len(line) : line[i] \in toks

\* the test of line.trim(), were no line to count as empty
TrimEmpty_never(line) == FALSE

\* line.trim() is the empty string
TrimEmpty(line) == \A i \in 1..Len(line) : line[i] = Blank

\* the lines a chunk sequence is cut into: buffer.split('\n'), then
\* lines.pop() keeps the last element as the new buffer
RECURSIVE SplitLines(_, _, _)
SplitLines(text, cur, acc) ==
  IF text = <<>> THEN [lines |-> acc, rest |-> cur]
  ELSE IF Head(text) = NL THEN SplitLines(Tail(text), <<>>, Append(acc, cur))
  ELSE SplitLines(Tail(text), Append(cur, Head(text)), acc)

\* the split, were the last element handled as a line too
Feed_flush(buffer, chunk) ==
  [lines |-> Append(SplitLines(buffer \o chunk, <<>>, <<>>).lines,
                    SplitLines(buffer \o chunk, <<>>, <<>>).rest),
   rest |-> <<>>]

Feed(buffer, chunk) == SplitLines(buffer \o chunk, <<>>, <<>>)

(* A chunk is a Buffer: a sequence of bytes.  A token other than LeadByte  *)
(* and ContByte stands for a run of ASCII bytes; LeadByte ContByte is the  *)
(* UTF-8 encoding of one two-byte character.                               *)
LeadByte == "0xC3"
ContByte == "0xA9"
TwoByteChar == "U+00E9"
Replacement == "U+FFFD"

\* data.toString(): the chunk decoded as UTF-8 on its own; a lead byte that
\* its continuation byte does not follow, and a continuation byte alone,
\* decode to U+FFFD
RECURSIVE DataToString(_)
DataToString(data) ==
  IF data = <<>> THEN <<>>
  ELSE IF Head(data) = LeadByte
  THEN IF Len(data) >= 2 /\ data[2] = ContByte
       THEN <<TwoByteChar>> \o DataToString(Tail(Tail(data)))
       ELSE <<Replacement>> \o DataToString(Tail(data))
  ELSE IF Head(data) = ContByte THEN <<Replacement>> \o DataToString(Tail(data))
  ELSE <<Head(data)>> \o DataToString(Tail(data))

(* ------------------------------ registry ------------------------------- *)
\* result of String.prototype.match when the pattern does not match
NoMatch == ""

\* logLine.match(/New WebSocket connection from (\d+\.\d+\.\d+\.\d+)/):
\* the captured address, or NoMatch
ConnectionMatch(line) ==
  IF \E i \in 1..(Len(line) - 1) : line[i] = ConnToken /\ line[i + 1] \in Addrs
  THEN LET i == CHOOSE j \in 1..(Len(line) - 1) :
                  /\ line[j] = ConnToken /\ line[j + 1] \in Addrs
                  /\ \A k \in 1..(j - 1) : ~(line[k] = ConnToken /\ line[k + 1] \in Addrs)
       IN line[i + 1]
  ELSE NoMatch

\* logLine.match(/Client (\d+\.\d+\.\d+\.\d+) disconnected/)
DisconnectionMatch(line) ==
  IF \E i \in 1..(Len(line) - 2) :
        line[i] = DiscHead /\ line[i + 1] \in Addrs /\ line[i + 2] = DiscTail
  THEN LET i == CHOOSE j \in 1..(Len(line) - 2) :
                  /\ line[j] = DiscHead /\ line[j + 1] \in Addrs /\ line[j + 2] = DiscTail
                  /\ \A k \in 1..(j - 1) :
                        ~(line[k] = DiscHead /\ line[k + 1] \in Addrs /\ line[k + 2] = DiscTail)
       IN line[i + 1]
  ELSE NoMatch

\* `client-${clientAddress}-${Date.now()}`
ClientId(address, now) == <<address, now>>

\* index of the first entry with the given id, 0 when there is none
IndexOfId(cc, id) ==
  IF \E i \in 1..Len(cc) : cc[i].id = id
  THEN CHOOSE i \in 1..Len(cc) : cc[i].id = id /\ \A k \in 1..(i - 1) : cc[k].id # id
  ELSE 0

\* Map.prototype.set: an existing key keeps its position, a new key goes last
MapSet(cc, info) ==
  LET i == IndexOfId(cc, info.id)
  IN IF i = 0 THEN Append(cc, info) ELSE [cc EXCEPT ![i] = info]

RemoveAt(cc, i) == SubSeq(cc, 1, i - 1) \o SubSeq(cc, i + 1, Len(cc))

\* the for-loop of the disconnection branch: delete the first entry, in
\* insertion order, whose address matches, then break
DeleteFirstByAddress(cc, address) ==
  IF \E i \in 1..Len(cc) : cc[i].address = address
  THEN RemoveAt(cc, CHOOSE i \in 1..Len(cc) :
                      /\ cc[i].address = address
                      /\ \A k \in 1..(i - 1) : cc[k].address # address)
  ELSE cc

\* parseClientEvents(logLine, sender): the registry after the line
ParseClientEvents(cc, line, now) ==
  IF ConnectionMatch(line) # NoMatch
  THEN MapSet(cc, [id |-> ClientId(ConnectionMatch(line), now),
                   address |-> ConnectionMatch(line)])
  ELSE IF DisconnectionMatch(line) # NoMatch
  THEN DeleteFirstByAddress(cc, DisconnectionMatch(line))
  ELSE cc

\* event.sender.send(channel, arg)
Event(channel, arg) == [channel |-> channel, arg |-> arg]

\* the events parseClientEvents sends for the line: 'client-connected' with
\* the new entry, 'client-disconnected' with the id of the deleted entry
PeerEvents(cc, line, now) ==
  IF ConnectionMatch(line) # NoMatch
  THEN <<Event("client-connected", [id |-> ClientId(ConnectionMatch(line), now),
                                    address |-> ConnectionMatch(line)])>>
  ELSE IF DisconnectionMatch(line) # NoMatch
          /\ \E i \in 1..Len(cc) : cc[i].address = DisconnectionMatch(line)
  THEN <<Event("client-disconnected",
               cc[CHOOSE i \in 1..Len(cc) :
                     /\ cc[i].address = DisconnectionMatch(line)
                     /\ \A k \in 1..(i - 1) : cc[k].address # DisconnectionMatch(line)].id)>>
  ELSE <<>>

\* the stderr log line, were error-shaped lines sent as they are
Annotated_plain(line) == line \o <<NL>>

\* `ERROR: ${line}\n` for a line with an error indicator, line + '\n' otherwise
Annotated(line) ==
  IF IncludesAny(line, ErrTokens) THEN <<"ERROR: ">> \o line \o <<NL>>
  ELSE line \o <<NL>>

(* ------------------------------- state --------------------------------- *)
VARIABLES
  serverProcess,     \* let serverProcess: pid of the held ChildProcess, or Null
  clientProcess,     \* let clientProcess
  connectedClients,  \* the Map, as the sequence of its values in insertion order
  now,               \* Date.now()
  role,              \* pid -> "server" | "client" | "none" (not spawned)
  pstate,            \* pid -> "none" | "errpending" | "alive" | "exited" | "closed" | "failed"
  psig,              \* pid -> strongest signal delivered: "none" | "SIGTERM" | "SIGKILL"
  hasResolved,       \* pid -> the hasResolved flag of the start-server closure
  outcome,           \* pid -> how the promise of the start call was settled
  logBuffer,         \* pid -> logBuffer / clientLogBuffer of the closure
  errorBuffer,       \* pid -> errorBuffer / clientErrorBuffer of the closure
  probe,             \* pid -> the http.get request of the probe is in flight
  running,           \* pid -> number of 'server-status' 'running' events sent
  stopped,           \* pid -> number of '<role>-status' 'stopped' events sent
  timers,            \* pending setTimeout timers, in creation order
  stops,             \* stop id -> the closure of an accepted stop call
  reply,             \* the error the callback that ran last returned, "" for none
  sent               \* the events the callback that ran last sent to the renderer

vars == <<serverProcess, clientProcess, connectedClients, now, role, pstate,
          psig, hasResolved, outcome, logBuffer, errorBuffer, probe, running,
          stopped, timers, stops, reply, sent>>

Pending == [kind |-> "pending", detail |-> <<>>]
Settled(kind) == [kind |-> kind, detail |-> <<>>]

\* resolve() / reject() of a promise: only the first call settles it
Settle(out, new) == IF out.kind = "pending" THEN new ELSE out

\* closure of a stop call: the process its 'exit' listener is attached to,
\* how its promise was settled, the process its grace timer sent SIGKILL to,
\* and whether the grace timer callback threw
NoStop == [role |-> "none", target |-> Null, outcome |-> "none",
           forced |-> Null, threw |-> FALSE]

Init ==
  /\ serverProcess = Null
  /\ clientProcess = Null
  /\ connectedClients = <<>>
  /\ now = 0
  /\ role = [p \in Pids |-> "none"]
  /\ pstate = [p \in Pids |-> "none"]
  /\ psig = [p \in Pids |-> "none"]
  /\ hasResolved = [p \in Pids |-> FALSE]
  /\ outcome = [p \in Pids |-> Pending]
  /\ logBuffer = [p \in Pids |-> <<>>]
  /\ errorBuffer = [p \in Pids |-> <<>>]
  /\ probe = [p \in Pids |-> FALSE]
  /\ running = [p \in Pids |-> 0]
  /\ stopped = [p \in Pids |-> 0]
  /\ timers = <<>>
  /\ stops = [s \in StopIds |-> NoStop]
  /\ reply = ""
  /\ sent = <<>>

(* ------------------------------- timers -------------------------------- *)
Timer(kind, id) == [kind |-> kind, id |-> id]

Duration(t) ==
  CASE t.kind = "probe" -> ProbeDelay
    [] t.kind = "grace" -> StopGrace
    [] t.kind = "clientTimeout" -> ClientTimeoutMs
    [] t.kind = "serverTimeout" -> ServerTimeoutMs

\* clearTimeout(t)
ClearTimeout(ts, t) == SelectSeq(ts, LAMBDA x : x # t)

TimerIn(ts, t) == \E i \in 1..Len(ts) : ts[i] = t

IsPending(t) == TimerIn(timers, t)

\* The event loop runs timers in the order of their deadlines.  u runs before
\* t when it was created no later than t with a delay no longer than t's;
\* the probe timer and the timeout of one start call are created in the same
\* callback, so the probe timer runs first.
MustPrecede(i, j) ==
  \/ i < j /\ Duration(timers[i]) <= Duration(timers[j])
  \/ /\ timers[i].kind = "probe" /\ timers[j].kind = "serverTimeout"
     /\ timers[i].id = timers[j].id

CanFire(t) ==
  \E j \in 1..Len(timers) :
     /\ timers[j] = t
     /\ \A i \in 1..Len(timers) : i # j => ~MustPrecede(i, j)

\* process.nextTick(onErrorNT): the 'error' event of a failed spawn is emitted
\* before any other callback runs
NoTick == \A p \in Pids : pstate[p] # "errpending"

(* ------------------------------ closures ------------------------------- *)
(* A start call creates a closure (its promise, hasResolved, the buffers)  *)
(* that lives as long as a listener or a timer can still run in it; so     *)
(* does a stop call.  The model keeps MaxSpawn start closures and MaxStops *)
(* stop closures; one that nothing can run in any more is forgotten and    *)
(* its slot is used again.                                                 *)
FreePids == {p \in Pids : role[p] = "none"}
NextPid == CHOOSE p \in FreePids : \A q \in FreePids : p <= q
FreeStops == {s \in StopIds : stops[s].role = "none"}
NextStop == CHOOSE s \in FreeStops : \A t \in FreeStops : s <= t

\* the grace timer of the stop call is gone and the 'exit' listener has run
\* or never will
GarbageStop(s) ==
  /\ stops[s].role # "none"
  /\ ~IsPending([kind |-> "grace", id |-> s])
  /\ pstate[stops[s].target] \in {"exited", "closed", "failed"}

\* the worker has ended, its pipes are closed, no timer and no request of
\* the start call is pending and no handle or stop closure refers to it
GarbagePid(p) ==
  /\ pstate[p] \in {"closed", "failed"}
  /\ \A i \in 1..Len(timers) : ~(timers[i].kind # "grace" /\ timers[i].id = p)
  /\ ~probe[p]
  /\ serverProcess # p /\ clientProcess # p
  /\ \A s \in StopIds : GarbageStop(s) \/ (stops[s].target # p /\ stops[s].forced # p)

\* callbacks run one at a time, after the pending tick and with dead closures
\* forgotten
Idle ==
  /\ NoTick
  /\ \A s \in StopIds : ~GarbageStop(s)
  /\ \A p \in Pids : ~GarbagePid(p)

(* --------------------------- child processes --------------------------- *)
SigRank(s) == CASE s = "none" -> 0 [] s = "SIGTERM" -> 1 [] s = "SIGKILL" -> 2

\* ChildProcess.kill(sig): delivered only while the process is running
Kill(sigs, q, sig) ==
  IF q # Null /\ pstate[q] = "alive" /\ SigRank(sig) > SigRank(sigs[q])
  THEN [sigs EXCEPT ![q] = sig]
  ELSE sigs

\* exit codes reported to the 'exit' listeners; NullCode is code === null,
\* reported when the process was ended by a signal
NullCode == -1
ExitCodes(p) == IF psig[p] = "none" THEN {0, 1} ELSE {0, 1, NullCode}

(* ------------------------- start-server closure ------------------------ *)
\* What the stream handlers of the start-server closure of process p read and
\* write while they run over the lines of one chunk.
ServerEnv(p) ==
  [hasResolved |-> hasResolved[p], outcome |-> outcome[p], running |-> running[p],
   timers |-> timers, serverProcess |-> serverProcess,
   connectedClients |-> connectedClients, sent |-> <<>>]

\* the readiness check, were it to ask for the phrase as the whole line
ReadyLine_exact(e, line) == line = <<ReadyToken>> /\ ~e.hasResolved

\* line.includes('Server started successfully') && !hasResolved
ReadyLine(e, line) == Includes(line, ReadyToken) /\ ~e.hasResolved

\* the resolution on readiness, were it to leave the timeout pending
ResolveStarted_keepTimer(e, p, kind) ==
  [e EXCEPT !.hasResolved = TRUE,
            !.running = @ + 1,
            !.sent = Append(@, Event("server-status", "running")),
            !.outcome = Settle(@, Settled(kind))]

\* hasResolved = true; clearTimeout(timeout); send('server-status', 'running');
\* resolve({success: true, ...})
ResolveStarted(e, p, kind) ==
  [e EXCEPT !.hasResolved = TRUE,
            !.timers = ClearTimeout(@, Timer("serverTimeout", p)),
            !.running = @ + 1,
            !.sent = Append(@, Event("server-status", "running")),
            !.outcome = Settle(@, Settled(kind))]

\* the dependency check, were it to look for ModuleNotFoundError only
DependencyLine_one(e, line) == ~e.hasResolved /\ Includes(line, "ModuleNotFoundError")

\* !hasResolved && (line.includes('ImportError') || line.includes('ModuleNotFoundError'))
DependencyLine(e, line) == ~e.hasResolved /\ IncludesAny(line, DepTokens)

\* hasResolved = true; clearTimeout(timeout); serverProcess = null; reject(...)
RejectDependency(e, p, line) ==
  [e EXCEPT !.hasResolved = TRUE,
            !.timers = ClearTimeout(@, Timer("serverTimeout", p)),
            !.serverProcess = Null,
            !.outcome = Settle(@, [kind |-> "dependency", detail |-> line])]

\* body of lines.forEach in serverProcess.stdout.on('data')
ServerStdoutLine(e, p, line) ==
  IF TrimEmpty(line) THEN e
  ELSE LET e1 == [e EXCEPT !.sent = Append(@, Event("server-log", line \o <<NL>>))
                              \o PeerEvents(e.connectedClients, line, now),
                           !.connectedClients = ParseClientEvents(@, line, now)]
       IN IF ReadyLine(e1, line) THEN ResolveStarted(e1, p, "started") ELSE e1

\* body of lines.forEach in serverProcess.stderr.on('data')
ServerStderrLine(e, p, line) ==
  IF TrimEmpty(line) THEN e
  ELSE LET e1 == [e EXCEPT !.sent = @ \o PeerEvents(e.connectedClients, line, now),
                           !.connectedClients = ParseClientEvents(@, line, now)]
           e2 == IF ReadyLine(e1, line) THEN ResolveStarted(e1, p, "started") ELSE e1
           e3 == [e2 EXCEPT !.sent = Append(@, Event("server-log", Annotated(line)))]
       IN IF DependencyLine(e3, line) THEN RejectDependency(e3, p, line) ELSE e3

RECURSIVE ServerLines(_, _, _, _)
ServerLines(e, p, lines, stream) ==
  IF lines = <<>> THEN e
  ELSE ServerLines(IF stream = "stdout" THEN ServerStdoutLine(e, p, Head(lines))
                   ELSE ServerStderrLine(e, p, Head(lines)),
                   p, Tail(lines), stream)

\* a worker's pipes deliver data while it runs, and what is still buffered in
\* them after its 'exit' event
CanWrite(p, r) == role[p] = r /\ pstate[p] \in {"alive", "exited"}

ApplyServerEnv(e, p) ==
  /\ hasResolved' = [hasResolved EXCEPT ![p] = e.hasResolved]
  /\ outcome' = [outcome EXCEPT ![p] = e.outcome]
  /\ running' = [running EXCEPT ![p] = e.running]
  /\ timers' = e.timers
  /\ serverProcess' = e.serverProcess
  /\ connectedClients' = e.connectedClients
  /\ sent' = e.sent

\* serverProcess.stdout.on('data', ...)
ServerStdoutData(p, chunk) ==
  /\ Idle
  /\ CanWrite(p, "server")
  /\ LET f == Feed(logBuffer[p], DataToString(chunk))
     IN /\ Len(f.rest) <= MaxFrag
        /\ logBuffer' = [logBuffer EXCEPT ![p] = f.rest]
        /\ ApplyServerEnv(ServerLines(ServerEnv(p), p, f.lines, "stdout"), p)
  /\ reply' = ""
  /\ UNCHANGED <<clientProcess, now, role, pstate, psig, errorBuffer, probe,
                 stopped, stops>>

\* serverProcess.stderr.on('data', ...)
ServerStderrData(p, chunk) ==
  /\ Idle
  /\ CanWrite(p, "server")
  /\ LET f == Feed(errorBuffer[p], DataToString(chunk))
     IN /\ Len(f.rest) <= MaxFrag
        /\ errorBuffer' = [errorBuffer EXCEPT ![p] = f.rest]
        /\ ApplyServerEnv(ServerLines(ServerEnv(p), p, f.lines, "stderr"), p)
  /\ reply' = ""
  /\ UNCHANGED <<clientProcess, now, role, pstate, psig, logBuffer, probe,
                 stopped, stops>>

(* ----------------------------- start-server ---------------------------- *)
\* the guard of start-server, were it never to reject
ServerAlreadyRunning_held == FALSE

\* if (serverProcess) throw new Error('Server is already running')
ServerAlreadyRunning == serverProcess # Null

\* ipcMain.handle('start-server'): spawnOk is whether spawn() found the
\* executable; when it did not, the 'error' event is emitted on the next tick
StartServer(spawnOk) ==
  /\ Idle
  /\ sent' = <<>>
  /\ IF ServerAlreadyRunning
     THEN /\ reply' = "Server is already running"
          /\ UNCHANGED <<serverProcess, clientProcess, connectedClients, now, role, pstate, psig, hasResolved, outcome, logBuffer,
                         errorBuffer, probe, running, stopped, timers, stops>>
     ELSE /\ FreePids # {}
          /\ LET p == NextPid
             IN /\ serverProcess' = p
                /\ role' = [role EXCEPT ![p] = "server"]
                /\ pstate' = [pstate EXCEPT ![p] = IF spawnOk THEN "alive" ELSE "errpending"]
                /\ timers' = timers \o <<Timer("serverTimeout", p), Timer("probe", p)>>
                /\ reply' = ""
          /\ UNCHANGED <<clientProcess, connectedClients, now, psig, hasResolved,
                         outcome, logBuffer, errorBuffer, probe, running, stopped,
                         stops>>

\* the setTimeout(..., 60000) callback of start-server
ServerTimeout(p) ==
  /\ Idle
  /\ CanFire(Timer("serverTimeout", p))
  /\ timers' = ClearTimeout(timers, Timer("serverTimeout", p))
  /\ psig' = Kill(psig, serverProcess, "SIGTERM")
  /\ serverProcess' = Null
  /\ outcome' = [outcome EXCEPT ![p] = Settle(@, Settled("timeout"))]
  /\ reply' = ""
  /\ sent' = <<>>
  /\ UNCHANGED <<clientProcess, connectedClients, now, role, pstate,
                 hasResolved, logBuffer, errorBuffer, probe, running, stopped,
                 stops>>

\* the setTimeout(..., 3000) callback of start-server, were it to start the
\* request whatever the state of the attempt
ProbeTimer_always(p) ==
  /\ Idle
  /\ CanFire(Timer("probe", p))
  /\ timers' = ClearTimeout(timers, Timer("probe", p))
  /\ probe' = [probe EXCEPT ![p] = TRUE]
  /\ reply' = ""
  /\ sent' = <<>>
  /\ UNCHANGED <<serverProcess, clientProcess, connectedClients, now, role,
                 pstate, psig, hasResolved, outcome, logBuffer, errorBuffer, running,
                 stopped, stops>>

\* the setTimeout(..., 3000) callback of start-server: starts the http.get
\* request when a handle is held and the attempt is unresolved
ProbeTimer(p) ==
  /\ Idle
  /\ CanFire(Timer("probe", p))
  /\ timers' = ClearTimeout(timers, Timer("probe", p))
  /\ probe' = [probe EXCEPT ![p] = serverProcess # Null /\ ~hasResolved[p]]
  /\ reply' = ""
  /\ sent' = <<>>
  /\ UNCHANGED <<serverProcess, clientProcess, connectedClients, now, role,
                 pstate, psig, hasResolved, outcome, logBuffer, errorBuffer, running,
                 stopped, stops>>

\* the response callback of http.get: some server worker answers on the port
ProbeResponse(p) ==
  /\ Idle
  /\ probe[p]
  /\ \E q \in Pids : role[q] = "server" /\ pstate[q] = "alive"
  /\ probe' = [probe EXCEPT ![p] = FALSE]
  /\ IF ~hasResolved[p]
     THEN ApplyServerEnv(ResolveStarted(ServerEnv(p), p, "verified"), p)
     ELSE /\ sent' = <<>>
          /\ UNCHANGED <<hasResolved, outcome, running, timers, serverProcess,
                         connectedClients>>
  /\ reply' = ""
  /\ UNCHANGED <<clientProcess, now, role, pstate, psig, logBuffer,
                 errorBuffer, stopped, stops>>

\* req.on('error'): the connection failed; only logged
ProbeError(p) ==
  /\ Idle
  /\ probe[p]
  /\ probe' = [probe EXCEPT ![p] = FALSE]
  /\ reply' = ""
  /\ sent' = <<>>
  /\ UNCHANGED <<serverProcess, clientProcess, connectedClients, now, role,
                 pstate, psig, hasResolved, outcome, logBuffer, errorBuffer, running,
                 stopped, timers, stops>>

(* ------------------------------ stop calls ----------------------------- *)
\* the 'exit' listener of a stop call, were it to leave the grace timer pending
StopListenersTimers_keep(ts, p) == ts

\* the 'exit' listeners that stop calls attached to process p:
\* clearTimeout(timeout); <handle> = null; resolve('... stopped gracefully')
StopListenersTimers(ts, p) ==
  SelectSeq(ts, LAMBDA t : ~(t.kind = "grace" /\ stops[t.id].target = p))

StopListenersStops(p) ==
  [s \in StopIds |->
     IF stops[s].target = p /\ stops[s].outcome = "pending"
     THEN [stops[s] EXCEPT !.outcome = "graceful"]
     ELSE stops[s]]

\* the guard of stop-server, were it never to reject
ServerNotRunning_never == FALSE

\* if (!serverProcess) throw new Error('Server is not running')
ServerNotRunning == serverProcess = Null

\* ipcMain.handle('stop-server')
StopServer ==
  /\ Idle
  /\ sent' = <<>>
  /\ IF ServerNotRunning
     THEN /\ reply' = "Server is not running"
          /\ UNCHANGED <<serverProcess, clientProcess, connectedClients, now, role, pstate, psig, hasResolved, outcome, logBuffer,
                         errorBuffer, probe, running, stopped, timers, stops>>
     ELSE /\ FreeStops # {}
          /\ LET s == NextStop
             IN /\ connectedClients' = <<>>
                /\ psig' = Kill(psig, serverProcess, "SIGTERM")
                /\ stops' = [stops EXCEPT ![s] = [role |-> "server",
                                target |-> serverProcess, outcome |-> "pending",
                                forced |-> Null, threw |-> FALSE]]
                /\ timers' = Append(timers, Timer("grace", s))
                /\ reply' = ""
          /\ UNCHANGED <<serverProcess, clientProcess, now, role, pstate,
                         hasResolved, outcome, logBuffer, errorBuffer, probe, running,
                         stopped>>

\* the setTimeout(..., 5000) callback of stop-server:
\* serverProcess.kill('SIGKILL'); serverProcess = null; resolve('... (forced)')
\* It reads the module variable: when that is null the call throws.
ServerGraceTimer(s) ==
  /\ Idle
  /\ stops[s].role = "server"
  /\ CanFire(Timer("grace", s))
  /\ timers' = ClearTimeout(timers, Timer("grace", s))
  /\ IF serverProcess = Null
     THEN /\ stops' = [stops EXCEPT ![s].threw = TRUE]
          /\ UNCHANGED <<psig, serverProcess>>
     ELSE /\ psig' = Kill(psig, serverProcess, "SIGKILL")
          /\ serverProcess' = Null
          /\ stops' = [stops EXCEPT ![s].forced = serverProcess,
                                    ![s].outcome = IF @ = "pending" THEN "forced" ELSE @]
  /\ reply' = ""
  /\ sent' = <<>>
  /\ UNCHANGED <<clientProcess, connectedClients, now, role, pstate,
                 hasResolved, outcome, logBuffer, errorBuffer, probe, running,
                 stopped>>

(* -------------------------- server process events ---------------------- *)
\* the 'exit' event of a server worker, were its listener to leave the
\* registry as it is
ServerExit_keepRegistry(p, code) ==
  /\ Idle
  /\ role[p] = "server"
  /\ pstate[p] = "alive"
  /\ code \in ExitCodes(p)
  /\ pstate' = [pstate EXCEPT ![p] = "exited"]
  /\ serverProcess' = Null
  /\ stopped' = [stopped EXCEPT ![p] = @ + 1]
  /\ LET rejects == code # 0 /\ ~hasResolved[p]
         ts == IF rejects THEN ClearTimeout(timers, Timer("serverTimeout", p)) ELSE timers
     IN /\ hasResolved' = [hasResolved EXCEPT ![p] = IF rejects THEN TRUE ELSE @]
        /\ outcome' = [outcome EXCEPT ![p] =
                         IF rejects THEN Settle(@, Settled("exited")) ELSE @]
        /\ timers' = StopListenersTimers(ts, p)
  /\ stops' = StopListenersStops(p)
  /\ reply' = ""
  /\ sent' = <<Event("server-status", "stopped")>>
  /\ UNCHANGED <<clientProcess, connectedClients, now, role, psig, logBuffer,
                 errorBuffer, probe, running>>

\* the 'exit' event of a server worker: the listener of start-server, then
\* the listeners of the stop-server calls made while it was held
ServerExit(p, code) ==
  /\ Idle
  /\ role[p] = "server"
  /\ pstate[p] = "alive"
  /\ code \in ExitCodes(p)
  /\ pstate' = [pstate EXCEPT ![p] = "exited"]
  /\ serverProcess' = Null
  /\ connectedClients' = <<>>
  /\ stopped' = [stopped EXCEPT ![p] = @ + 1]
  /\ LET rejects == code # 0 /\ ~hasResolved[p]
         ts == IF rejects THEN ClearTimeout(timers, Timer("serverTimeout", p)) ELSE timers
     IN /\ hasResolved' = [hasResolved EXCEPT ![p] = IF rejects THEN TRUE ELSE @]
        /\ outcome' = [outcome EXCEPT ![p] =
                         IF rejects THEN Settle(@, Settled("exited")) ELSE @]
        /\ timers' = StopListenersTimers(ts, p)
  /\ stops' = StopListenersStops(p)
  /\ reply' = ""
  /\ sent' = <<Event("server-status", "stopped")>>
  /\ UNCHANGED <<clientProcess, now, role, psig, logBuffer, errorBuffer,
                 probe, running>>

\* the 'error' event of a server worker whose spawn failed
ServerError(p) ==
  /\ role[p] = "server"
  /\ pstate[p] = "errpending"
  /\ pstate' = [pstate EXCEPT ![p] = "failed"]
  /\ IF ~hasResolved[p]
     THEN /\ hasResolved' = [hasResolved EXCEPT ![p] = TRUE]
          /\ timers' = ClearTimeout(timers, Timer("serverTimeout", p))
          /\ serverProcess' = Null
          /\ outcome' = [outcome EXCEPT ![p] = Settle(@, Settled("spawnerror"))]
     ELSE UNCHANGED <<hasResolved, timers, serverProcess, outcome>>
  /\ reply' = ""
  /\ sent' = <<>>
  /\ UNCHANGED <<clientProcess, connectedClients, now, role, psig, logBuffer,
                 errorBuffer, probe, running, stopped, stops>>

(* -------------------------------- client ------------------------------- *)
\* if (clientProcess) throw new Error('Client is already running')
ClientAlreadyRunning == clientProcess # Null

\* ipcMain.handle('start-client')
StartClient(spawnOk) ==
  /\ Idle
  /\ sent' = <<>>
  /\ IF ClientAlreadyRunning
     THEN /\ reply' = "Client is already running"
          /\ UNCHANGED <<serverProcess, clientProcess, connectedClients, now, role, pstate, psig, hasResolved, outcome, logBuffer,
                         errorBuffer, probe, running, stopped, timers, stops>>
     ELSE /\ FreePids # {}
          /\ LET p == NextPid
             IN /\ clientProcess' = p
                /\ role' = [role EXCEPT ![p] = "client"]
                /\ pstate' = [pstate EXCEPT ![p] = IF spawnOk THEN "alive" ELSE "errpending"]
                /\ timers' = Append(timers, Timer("clientTimeout", p))
                /\ reply' = ""
          /\ UNCHANGED <<serverProcess, connectedClients, now, psig, hasResolved,
                         outcome, logBuffer, errorBuffer, probe, running, stopped,
                         stops>>

\* clientProcess.pid && clientProcess.exitCode === null
SeemsRunning(q) == pstate[q] = "alive"

\* the setTimeout(..., 10000) callback of start-client
ClientTimeout(p) ==
  /\ Idle
  /\ CanFire(Timer("clientTimeout", p))
  /\ timers' = ClearTimeout(timers, Timer("clientTimeout", p))
  /\ IF clientProcess # Null /\ SeemsRunning(clientProcess)
     THEN /\ outcome' = [outcome EXCEPT ![p] = Settle(@, Settled("assumed"))]
          /\ UNCHANGED <<clientProcess, psig>>
     ELSE /\ psig' = Kill(psig, clientProcess, "SIGTERM")
          /\ clientProcess' = Null
          /\ outcome' = [outcome EXCEPT ![p] = Settle(@, Settled("timeout"))]
  /\ reply' = ""
  /\ sent' = <<>>
  /\ UNCHANGED <<serverProcess, connectedClients, now, role, pstate,
                 hasResolved, logBuffer, errorBuffer, probe, running, stopped,
                 stops>>

\* what the stream handlers of the start-client closure of process p read and
\* write while they run over the lines of one chunk
ClientEnv(p) == [timers |-> timers, outcome |-> outcome[p], sent |-> <<>>]

\* body of lines.forEach in the client's stdout and stderr handlers: the line
\* is sent as 'client-log', annotated on stderr; a line with the success
\* message clears the timeout and resolves the start call
ClientLine(e, p, line, stream) ==
  IF TrimEmpty(line) THEN e
  ELSE LET e1 == [e EXCEPT !.sent = Append(@, Event("client-log",
                                 IF stream = "stdout" THEN line \o <<NL>>
                                 ELSE Annotated(line)))]
       IN IF Includes(line, ClientReadyToken)
          THEN [e1 EXCEPT !.timers = ClearTimeout(@, Timer("clientTimeout", p)),
                          !.outcome = Settle(@, Settled("connected"))]
          ELSE e1

RECURSIVE ClientLines(_, _, _, _)
ClientLines(e, p, lines, stream) ==
  IF lines = <<>> THEN e
  ELSE ClientLines(ClientLine(e, p, Head(lines), stream), p, Tail(lines), stream)

\* clientProcess.stdout.on('data', ...)
ClientStdoutData(p, chunk) ==
  /\ Idle
  /\ CanWrite(p, "client")
  /\ LET f == Feed(logBuffer[p], DataToString(chunk))
         e == ClientLines(ClientEnv(p), p, f.lines, "stdout")
     IN /\ Len(f.rest) <= MaxFrag
        /\ logBuffer' = [logBuffer EXCEPT ![p] = f.rest]
        /\ timers' = e.timers
        /\ outcome' = [outcome EXCEPT ![p] = e.outcome]
        /\ sent' = e.sent
  /\ reply' = ""
  /\ UNCHANGED <<serverProcess, clientProcess, connectedClients, now, role,
                 pstate, psig, hasResolved, errorBuffer, probe, running, stopped,
                 stops>>

\* clientProcess.stderr.on('data', ...)
ClientStderrData(p, chunk) ==
  /\ Idle
  /\ CanWrite(p, "client")
  /\ LET f == Feed(errorBuffer[p], DataToString(chunk))
         e == ClientLines(ClientEnv(p), p, f.lines, "stderr")
     IN /\ Len(f.rest) <= MaxFrag
        /\ errorBuffer' = [errorBuffer EXCEPT ![p] = f.rest]
        /\ timers' = e.timers
        /\ outcome' = [outcome EXCEPT ![p] = e.outcome]
        /\ sent' = e.sent
  /\ reply' = ""
  /\ UNCHANGED <<serverProcess, clientProcess, connectedClients, now, role,
                 pstate, psig, hasResolved, logBuffer, probe, running, stopped,
                 stops>>

\* the 'exit' event of a client worker, were its listener to clear the
\* timeout whatever the exit code
ClientExit_clearsTimeout(p, code) ==
  /\ Idle
  /\ role[p] = "client"
  /\ pstate[p] = "alive"
  /\ code \in ExitCodes(p)
  /\ pstate' = [pstate EXCEPT ![p] = "exited"]
  /\ clientProcess' = Null
  /\ stopped' = [stopped EXCEPT ![p] = @ + 1]
  /\ outcome' = [outcome EXCEPT ![p] =
                   IF code # 0 THEN Settle(@, Settled("exited")) ELSE @]
  /\ timers' = StopListenersTimers(ClearTimeout(timers, Timer("clientTimeout", p)), p)
  /\ stops' = StopListenersStops(p)
  /\ reply' = ""
  /\ sent' = <<Event("client-status", "stopped")>>
  /\ UNCHANGED <<serverProcess, connectedClients, now, role, psig,
                 hasResolved, logBuffer, errorBuffer, probe, running>>

\* the 'exit' event of a client worker: the listener of start-client, then
\* the listeners of the stop-client calls made while it was held
ClientExit(p, code) ==
  /\ Idle
  /\ role[p] = "client"
  /\ pstate[p] = "alive"
  /\ code \in ExitCodes(p)
  /\ pstate' = [pstate EXCEPT ![p] = "exited"]
  /\ clientProcess' = Null
  /\ stopped' = [stopped EXCEPT ![p] = @ + 1]
  /\ outcome' = [outcome EXCEPT ![p] =
                   IF code # 0 THEN Settle(@, Settled("exited")) ELSE @]
  /\ timers' = StopListenersTimers(
                  IF code # 0 THEN ClearTimeout(timers, Timer("clientTimeout", p))
                  ELSE timers, p)
  /\ stops' = StopListenersStops(p)
  /\ reply' = ""
  /\ sent' = <<Event("client-status", "stopped")>>
  /\ UNCHANGED <<serverProcess, connectedClients, now, role, psig,
                 hasResolved, logBuffer, errorBuffer, probe, running>>

\* the 'error' event of a client worker whose spawn failed: the closure of
\* start-client has no listener that touches the attempt
ClientError(p) ==
  /\ role[p] = "client"
  /\ pstate[p] = "errpending"
  /\ pstate' = [pstate EXCEPT ![p] = "failed"]
  /\ reply' = ""
  /\ sent' = <<>>
  /\ UNCHANGED <<serverProcess, clientProcess, connectedClients, now, role,
                 psig, hasResolved, outcome, logBuffer, errorBuffer, probe, running,
                 stopped, timers, stops>>

\* if (!clientProcess) throw new Error('Client is not running')
ClientNotRunning == clientProcess = Null

\* ipcMain.handle('stop-client')
StopClient ==
  /\ Idle
  /\ sent' = <<>>
  /\ IF ClientNotRunning
     THEN /\ reply' = "Client is not running"
          /\ UNCHANGED <<serverProcess, clientProcess, connectedClients, now, role, pstate, psig, hasResolved, outcome, logBuffer,
                         errorBuffer, probe, running, stopped, timers, stops>>
     ELSE /\ FreeStops # {}
          /\ LET s == NextStop
             IN /\ psig' = Kill(psig, clientProcess, "SIGTERM")
                /\ stops' = [stops EXCEPT ![s] = [role |-> "client",
                                target |-> clientProcess, outcome |-> "pending",
                                forced |-> Null, threw |-> FALSE]]
                /\ timers' = Append(timers, Timer("grace", s))
                /\ reply' = ""
          /\ UNCHANGED <<serverProcess, clientProcess, connectedClients, now, role, pstate, hasResolved, outcome, logBuffer, errorBuffer,
                         probe, running, stopped>>

\* the setTimeout(..., 5000) callback of stop-client, were it to be the one
\* of stop-server: serverProcess.kill('SIGKILL'); serverProcess = null
ClientGraceTimer_server(s) ==
  /\ Idle
  /\ stops[s].role = "client"
  /\ CanFire(Timer("grace", s))
  /\ timers' = ClearTimeout(timers, Timer("grace", s))
  /\ IF serverProcess = Null
     THEN /\ stops' = [stops EXCEPT ![s].threw = TRUE]
          /\ UNCHANGED <<psig, serverProcess>>
     ELSE /\ psig' = Kill(psig, serverProcess, "SIGKILL")
          /\ serverProcess' = Null
          /\ stops' = [stops EXCEPT ![s].forced = serverProcess,
                                    ![s].outcome = IF @ = "pending" THEN "forced" ELSE @]
  /\ reply' = ""
  /\ sent' = <<>>
  /\ UNCHANGED <<clientProcess, connectedClients, now, role, pstate,
                 hasResolved, outcome, logBuffer, errorBuffer, probe, running,
                 stopped>>

\* the setTimeout(..., 5000) callback of stop-client
ClientGraceTimer(s) ==
  /\ Idle
  /\ stops[s].role = "client"
  /\ CanFire(Timer("grace", s))
  /\ timers' = ClearTimeout(timers, Timer("grace", s))
  /\ IF clientProcess = Null
     THEN /\ stops' = [stops EXCEPT ![s].threw = TRUE]
          /\ UNCHANGED <<psig, clientProcess>>
     ELSE /\ psig' = Kill(psig, clientProcess, "SIGKILL")
          /\ clientProcess' = Null
          /\ stops' = [stops EXCEPT ![s].forced = clientProcess,
                                    ![s].outcome = IF @ = "pending" THEN "forced" ELSE @]
  /\ reply' = ""
  /\ sent' = <<>>
  /\ UNCHANGED <<serverProcess, connectedClients, now, role, pstate,
                 hasResolved, outcome, logBuffer, errorBuffer, probe, running,
                 stopped>>

(* ------------------------- status and registry reads ------------------- *)
\* ipcMain.handle('get-service-status')
GetServiceStatus ==
  [server |-> IF serverProcess # Null THEN "running" ELSE "stopped",
   client |-> IF clientProcess # Null THEN "running" ELSE "stopped"]

\* ipcMain.handle('get-connected-clients'): Array.from(connectedClients.values())
GetConnectedClients == connectedClients

(* ------------------------------ environment ---------------------------- *)
\* the 'close' event of a worker: it has ended and its pipes are closed; no
\* listener is registered for it, a buffered fragment is never handled
StreamsClose(p) ==
  /\ Idle
  /\ pstate[p] = "exited"
  /\ pstate' = [pstate EXCEPT ![p] = "closed"]
  /\ reply' = ""
  /\ sent' = <<>>
  /\ UNCHANGED <<serverProcess, clientProcess, connectedClients, now, role, psig,
                 hasResolved, outcome, logBuffer, errorBuffer, probe, running,
                 stopped, timers, stops>>

\* dead closures are forgotten
Collect ==
  /\ NoTick
  /\ (\E s \in StopIds : GarbageStop(s)) \/ (\E p \in Pids : GarbagePid(p))
  /\ stops' = [s \in StopIds |-> IF GarbageStop(s) THEN NoStop ELSE stops[s]]
  /\ role' = [p \in Pids |-> IF GarbagePid(p) THEN "none" ELSE role[p]]
  /\ pstate' = [p \in Pids |-> IF GarbagePid(p) THEN "none" ELSE pstate[p]]
  /\ psig' = [p \in Pids |-> IF GarbagePid(p) THEN "none" ELSE psig[p]]
  /\ hasResolved' = [p \in Pids |-> IF GarbagePid(p) THEN FALSE ELSE hasResolved[p]]
  /\ outcome' = [p \in Pids |-> IF GarbagePid(p) THEN Pending ELSE outcome[p]]
  /\ logBuffer' = [p \in Pids |-> IF GarbagePid(p) THEN <<>> ELSE logBuffer[p]]
  /\ errorBuffer' = [p \in Pids |-> IF GarbagePid(p) THEN <<>> ELSE errorBuffer[p]]
  /\ running' = [p \in Pids |-> IF GarbagePid(p) THEN 0 ELSE running[p]]
  /\ stopped' = [p \in Pids |-> IF GarbagePid(p) THEN 0 ELSE stopped[p]]
  /\ reply' = ""
  /\ sent' = <<>>
  /\ UNCHANGED <<serverProcess, clientProcess, connectedClients, now, probe, timers>>

\* the wall clock moves on between two callbacks
Tick ==
  /\ Idle
  /\ now < MaxClock
  /\ now' = now + 1
  /\ reply' = ""
  /\ sent' = <<>>
  /\ UNCHANGED <<serverProcess, clientProcess, connectedClients, role, pstate,
                 psig, hasResolved, outcome, logBuffer, errorBuffer, probe, running,
                 stopped, timers, stops>>

Line(toks) == toks \o <<NL>>
ConnLine(a) == <<ConnToken, a>>
DiscLine(a) == <<DiscHead, a, DiscTail>>

\* what a server worker writes in one chunk: whole lines, the readiness line
\* without its terminator, a terminator alone
ServerChunks ==
  {Line(<<ReadyToken>>), Line(<<"ImportError">>), Line(<<"info">>), Line(<<Blank>>),
   <<ReadyToken>>, <<NL>>}
  \cup {Line(ConnLine(a)) : a \in Addrs} \cup {Line(DiscLine(a)) : a \in Addrs}

ClientChunks ==
  {Line(<<ClientReadyToken>>), Line(<<"info">>), <<ClientReadyToken>>, <<NL>>}

\* what the workers write when only the start and the end of a worker are
\* looked at: the readiness line and a dependency error, as whole lines
LifecycleChunks == {Line(<<ReadyToken>>), Line(<<"ImportError">>)}
ClientLifecycleChunks == {Line(<<ClientReadyToken>>)}

\* text after 'connection from ' that is not an IPv4 address: no digits, and
\* a fifth numeric group after an address
BadAddr == "invalid-ip"
FifthGroup == ".7"

\* what a server worker writes when the peers are looked at: peer lines,
\* connect lines with a malformed address, the readiness line and a
\* dependency error, as whole lines
RegistryChunks ==
  {Line(<<ReadyToken>>), Line(<<"ImportError">>), Line(<<ConnToken, BadAddr>>),
   Line(<<ConnToken, "10.0.0.5", FifthGroup>>)}
  \cup {Line(ConnLine(a)) : a \in Addrs} \cup {Line(DiscLine(a)) : a \in Addrs}

\* a stop requested when the closures of the earlier stop calls are gone
StopServerAlone == FreeStops = StopIds /\ StopServer
StopClientAlone == FreeStops = StopIds /\ StopClient

\* Both roles, one stop call at a time; the workers write whole lines.
Next ==
  \/ \E ok \in BOOLEAN : StartServer(ok)
  \/ \E ok \in BOOLEAN : StartClient(ok)
  \/ StopServerAlone
  \/ StopClientAlone
  \/ \E p \in Pids : ServerTimeout(p)
  \/ \E p \in Pids : ProbeTimer(p)
  \/ \E p \in Pids : ProbeResponse(p)
  \/ \E p \in Pids : ProbeError(p)
  \/ \E p \in Pids : ClientTimeout(p)
  \/ \E s \in StopIds : ServerGraceTimer(s)
  \/ \E s \in StopIds : ClientGraceTimer(s)
  \/ \E p \in Pids, c \in LifecycleChunks : ServerStdoutData(p, c)
  \/ \E p \in Pids, c \in LifecycleChunks : ServerStderrData(p, c)
  \/ \E p \in Pids, c \in ClientLifecycleChunks : ClientStdoutData(p, c)
  \/ \E p \in Pids, c \in ClientLifecycleChunks : ClientStderrData(p, c)
  \/ \E p \in Pids, code \in {0, 1, NullCode} : ServerExit(p, code)
  \/ \E p \in Pids, code \in {0, 1, NullCode} : ClientExit(p, code)
  \/ \E p \in Pids : ServerError(p)
  \/ \E p \in Pids : ClientError(p)
  \/ \E p \in Pids : StreamsClose(p)
  \/ Collect

Spec == Init /\ [][Next]_vars

\* a start of the server requested when the closures of the earlier starts
\* are gone
StartServerAlone == FreePids = Pids /\ StartServer(TRUE)

\* The server role with one worker at a time.  The worker writes peer lines,
\* whole.
NextRegistry ==
  \/ StartServerAlone
  \/ StopServer
  \/ \E p \in Pids : ServerTimeout(p)
  \/ \E p \in Pids : ProbeTimer(p)
  \/ \E p \in Pids : ProbeResponse(p)
  \/ \E p \in Pids : ProbeError(p)
  \/ \E s \in StopIds : ServerGraceTimer(s)
  \/ \E p \in Pids, c \in RegistryChunks : ServerStdoutData(p, c)
  \/ \E p \in Pids, c \in RegistryChunks : ServerStderrData(p, c)
  \/ \E p \in Pids, code \in {0, 1, NullCode} : ServerExit(p, code)
  \/ \E p \in Pids : StreamsClose(p)
  \/ Tick
  \/ Collect

SpecRegistry == Init /\ [][NextRegistry]_vars

\* what a worker writes when a line is cut at any byte: an informational
\* line, a line with a two-byte character and the readiness line, in one
\* chunk and in pieces, and a dependency error
LineChunks ==
  {<<"msg">>, Line(<<"msg">>), <<NL>>, <<LeadByte>>, <<ContByte>>,
   <<LeadByte, ContByte>>, <<ContByte, NL>>, <<LeadByte, ContByte, NL>>,
   <<ReadyToken>>, Line(<<ReadyToken>>), Line(<<"ImportError">>)}

\* a chunk of single bytes arrives on stdout / stderr of the server worker
StdoutPiece(p, chunk) ==
  /\ Len(Feed(logBuffer[p], DataToString(chunk)).rest) <= MaxPiece
  /\ ServerStdoutData(p, chunk)

StderrPiece(p, chunk) ==
  /\ Len(Feed(errorBuffer[p], DataToString(chunk)).rest) <= MaxPiece
  /\ ServerStderrData(p, chunk)

\* The server role with one worker at a time.  The worker writes lines in
\* pieces.
NextLines ==
  \/ StartServerAlone
  \/ \E p \in Pids : ServerTimeout(p)
  \/ \E p \in Pids : ProbeTimer(p)
  \/ \E p \in Pids : ProbeResponse(p)
  \/ \E p \in Pids : ProbeError(p)
  \/ \E p \in Pids, c \in LineChunks : StdoutPiece(p, c)
  \/ \E p \in Pids, c \in LineChunks : StderrPiece(p, c)
  \/ \E p \in Pids, code \in {0, 1, NullCode} : ServerExit(p, code)
  \/ \E p \in Pids : StreamsClose(p)
  \/ Collect

SpecLines == Init /\ [][NextLines]_vars

\* a start-client requested when no closure of an earlier start call is left
StartClientAlone == FreePids = Pids /\ StartClient(TRUE)

\* what a worker writes when its lines arrive without their terminator: the
\* readiness line, a dependency error, a peer line; and a terminator alone
FragmentChunks == {<<ReadyToken>>, <<"ImportError">>, ConnLine("10.0.0.5"), <<NL>>}
ClientFragmentChunks == {<<ClientReadyToken>>, <<NL>>}

\* One worker at a time, of either role.  The worker writes a line and its
\* terminator in separate chunks.
NextFragments ==
  \/ StartServerAlone
  \/ StartClientAlone
  \/ \E p \in Pids : ServerTimeout(p)
  \/ \E p \in Pids : ProbeTimer(p)
  \/ \E p \in Pids : ProbeResponse(p)
  \/ \E p \in Pids : ProbeError(p)
  \/ \E p \in Pids : ClientTimeout(p)
  \/ \E p \in Pids, c \in FragmentChunks : ServerStdoutData(p, c)
  \/ \E p \in Pids, c \in FragmentChunks : ServerStderrData(p, c)
  \/ \E p \in Pids, c \in ClientFragmentChunks : ClientStdoutData(p, c)
  \/ \E p \in Pids, c \in ClientFragmentChunks : ClientStderrData(p, c)
  \/ \E p \in Pids, code \in {0, 1, NullCode} : ServerExit(p, code)
  \/ \E p \in Pids, code \in {0, 1, NullCode} : ClientExit(p, code)
  \/ \E p \in Pids : StreamsClose(p)
  \/ Collect

SpecFragments == Init /\ [][NextFragments]_vars

\* what a server worker writes when the classification of its lines is
\* looked at, as whole lines: informational, blank, error-shaped, peer,
\* readiness and dependency-error lines, lines of two kinds at once, and
\* several lines in one chunk
ClassifyChunks ==
  {Line(<<"info">>), Line(<<Blank>>), Line(<<ReadyToken>>), Line(<<"ImportError">>),
   Line(<<"ERROR:", "info">>), Line(<<"ERROR:", ReadyToken>>),
   Line(ConnLine("10.0.0.5")), Line(DiscLine("10.0.0.5")),
   Line(ConnLine("10.0.0.5") \o <<ReadyToken>>),
   Line(<<"info">>) \o Line(<<Blank>>) \o Line(<<"Traceback">>)}

ClientClassifyChunks ==
  {Line(<<"info">>), Line(<<Blank>>), Line(<<ClientReadyToken>>),
   Line(<<"ERROR:", "info">>), Line(<<"ERROR:", ClientReadyToken>>),
   Line(<<"info">>) \o Line(<<Blank>>) \o Line(<<"Traceback">>)}

\* One worker at a time, of either role.  The worker writes whole lines of
\* every kind.
NextClassify ==
  \/ StartServerAlone
  \/ StartClientAlone
  \/ \E p \in Pids : ServerTimeout(p)
  \/ \E p \in Pids : ProbeTimer(p)
  \/ \E p \in Pids : ProbeResponse(p)
  \/ \E p \in Pids : ProbeError(p)
  \/ \E p \in Pids : ClientTimeout(p)
  \/ \E p \in Pids, c \in ClassifyChunks : ServerStdoutData(p, c)
  \/ \E p \in Pids, c \in ClassifyChunks : ServerStderrData(p, c)
  \/ \E p \in Pids, c \in ClientClassifyChunks : ClientStdoutData(p, c)
  \/ \E p \in Pids, c \in ClientClassifyChunks : ClientStderrData(p, c)
  \/ \E p \in Pids, code \in {0, 1, NullCode} : ServerExit(p, code)
  \/ \E p \in Pids, code \in {0, 1, NullCode} : ClientExit(p, code)
  \/ \E p \in Pids : StreamsClose(p)
  \/ Collect

SpecClassify == Init /\ [][NextClassify]_vars

\* The event loop runs every callback that is due: a timer whose delay has
\* passed runs once the callbacks before it have run, the 'error' event of a
\* failed spawn is emitted on the next tick, and closures nothing refers to
\* are forgotten.  Nothing is assumed about the workers and the user.
Fairness ==
  /\ SF_vars(\E p \in Pids : ServerTimeout(p))
  /\ SF_vars(\E p \in Pids : ProbeTimer(p))
  /\ SF_vars(\E p \in Pids : ClientTimeout(p))
  /\ SF_vars(\E s \in StopIds : ServerGraceTimer(s) \/ ClientGraceTimer(s))
  /\ WF_vars(\E p \in Pids : ServerError(p) \/ ClientError(p))
  /\ WF_vars(Collect)

\* a start requested when no closure of an earlier start call of the role is
\* left
StartServerFresh(spawnOk) ==
  (\A p \in Pids : role[p] # "server") /\ StartServer(spawnOk)

StartClientFresh(spawnOk) ==
  (\A p \in Pids : role[p] # "client") /\ StartClient(spawnOk)

\* Both roles, for each role one start call and one stop call at a time; the
\* workers write whole lines.
NextFair ==
  \/ \E ok \in BOOLEAN : StartServerFresh(ok)
  \/ \E ok \in BOOLEAN : StartClientFresh(ok)
  \/ StopServerAlone
  \/ StopClientAlone
  \/ \E p \in Pids : ServerTimeout(p)
  \/ \E p \in Pids : ProbeTimer(p)
  \/ \E p \in Pids : ProbeResponse(p)
  \/ \E p \in Pids : ProbeError(p)
  \/ \E p \in Pids : ClientTimeout(p)
  \/ \E s \in StopIds : ServerGraceTimer(s)
  \/ \E s \in StopIds : ClientGraceTimer(s)
  \/ \E p \in Pids, c \in LifecycleChunks : ServerStdoutData(p, c)
  \/ \E p \in Pids, c \in LifecycleChunks : ServerStderrData(p, c)
  \/ \E p \in Pids, c \in ClientLifecycleChunks : ClientStdoutData(p, c)
  \/ \E p \in Pids, c \in ClientLifecycleChunks : ClientStderrData(p, c)
  \/ \E p \in Pids, code \in {0, 1, NullCode} : ServerExit(p, code)
  \/ \E p \in Pids, code \in {0, 1, NullCode} : ClientExit(p, code)
  \/ \E p \in Pids : ServerError(p)
  \/ \E p \in Pids : ClientError(p)
  \/ \E p \in Pids : StreamsClose(p)
  \/ Collect

SpecFair == Init /\ [][NextFair]_vars /\ Fairness

\* what a server worker writes when both roles run: the readiness line and a
\* peer line
RoleChunks == {Line(<<ReadyToken>>), Line(ConnLine("10.0.0.5"))}

\* Both roles, for each role one start call and one stop call at a time; the
\* server worker reports a peer.
NextRoles ==
  \/ \E ok \in BOOLEAN : StartServerFresh(ok)
  \/ \E ok \in BOOLEAN : StartClientFresh(ok)
  \/ StopServerAlone
  \/ StopClientAlone
  \/ \E p \in Pids : ServerTimeout(p)
  \/ \E p \in Pids : ProbeTimer(p)
  \/ \E p \in Pids : ProbeResponse(p)
  \/ \E p \in Pids : ProbeError(p)
  \/ \E p \in Pids : ClientTimeout(p)
  \/ \E s \in StopIds : ServerGraceTimer(s)
  \/ \E s \in StopIds : ClientGraceTimer(s)
  \/ \E p \in Pids, c \in RoleChunks : ServerStdoutData(p, c)
  \/ \E p \in Pids, c \in RoleChunks : ServerStderrData(p, c)
  \/ \E p \in Pids, c \in ClientLifecycleChunks : ClientStdoutData(p, c)
  \/ \E p \in Pids, c \in ClientLifecycleChunks : ClientStderrData(p, c)
  \/ \E p \in Pids, code \in {0, 1, NullCode} : ServerExit(p, code)
  \/ \E p \in Pids, code \in {0, 1, NullCode} : ClientExit(p, code)
  \/ \E p \in Pids : ServerError(p)
  \/ \E p \in Pids : ClientError(p)
  \/ \E p \in Pids : StreamsClose(p)
  \/ Collect

SpecRoles == Init /\ [][NextRoles]_vars

(* ------------------------------ properties ----------------------------- *)
Roles == {"server", "client"}

AliveWorkers(r) == {p \in Pids : role[p] = r /\ pstate[p] = "alive"}

\* everything but what the last callback returned and sent
state == <<serverProcess, clientProcess, connectedClients, now, role, pstate, psig,
           hasResolved, outcome, logBuffer, errorBuffer, probe, running, stopped,
           timers, stops>>

\* C1: for each role at most one worker that was spawned and has not exited
\* exists at any time.
C1_AtMostOneWorkerPerRole == \A r \in Roles : Cardinality(AliveWorkers(r)) <= 1

\* C2: a start request for a role whose handle is held returns the 'already
\* running' error and changes nothing: no process, no timer, the handle, the
\* pending attempt and the registry as before.
C2_StartWhileHeldRejected ==
  [][/\ (serverProcess # Null /\ \E ok \in BOOLEAN : StartServer(ok))
          => (reply' = "Server is already running" /\ UNCHANGED state)
     /\ (clientProcess # Null /\ \E ok \in BOOLEAN : StartClient(ok))
          => (reply' = "Client is already running" /\ UNCHANGED state)]_vars

\* C2 witness: a start-server request was just rejected while a worker with a
\* pending start attempt is held
C2_Witness ==
  /\ reply = "Server is already running"
  /\ serverProcess # Null
  /\ outcome[serverProcess].kind = "pending"

\* a readiness line, a dependency-error line or a probe success of the start
\* attempt of p arrives
ReadinessSignal(p) ==
  \/ \E c \in ServerChunks : ServerStdoutData(p, c)
  \/ \E c \in ServerChunks : ServerStderrData(p, c)
  \/ ProbeResponse(p)

\* C3: once one signal has decided the outcome of a server start attempt, a
\* readiness line, dependency-error line or probe success of that attempt that
\* arrives later emits no 'running' status event and changes neither the
\* handle nor the outcome.
C3_LaterSignalsAreNoOps ==
  [][\A p \in Pids :
        (role[p] = "server" /\ outcome[p].kind # "pending" /\ ReadinessSignal(p))
          => /\ running'[p] = running[p]
             /\ serverProcess' = serverProcess
             /\ outcome'[p] = outcome[p]]_vars

\* the chunk completes exactly one line on the diagnostic stream of p, and
\* that line is a dependency-error line without the readiness phrase
DependencyChunk(p, c) ==
  LET f == Feed(errorBuffer[p], DataToString(c))
  IN /\ Len(f.lines) = 1
     /\ IncludesAny(f.lines[1], DepTokens)
     /\ ~Includes(f.lines[1], ReadyToken)

\* C4: while a server start attempt is unresolved, a dependency-error line on
\* the diagnostic stream rejects the start call at once with a dependency
\* error carrying the line; no readiness line or probe success that arrives
\* afterwards turns the outcome into a success or emits 'running'.
C4_DependencyErrorPreempts ==
  [][\A p \in Pids :
        /\ (role[p] = "server" /\ outcome[p].kind = "pending")
              => \A c \in ServerChunks :
                    (DependencyChunk(p, c) /\ ServerStderrData(p, c))
                      => outcome'[p] = [kind |-> "dependency",
                                        detail |-> Feed(errorBuffer[p], DataToString(c)).lines[1]]
        /\ (outcome[p].kind = "dependency" /\ role'[p] = "server")
              => (outcome'[p] = outcome[p] /\ running'[p] = running[p])]_vars

\* C4 witness: a start call was rejected with the dependency error before its
\* probe timer ran, and a later readiness signal has been ignored
C4_Witness ==
  \E p \in Pids :
     /\ outcome[p] = [kind |-> "dependency", detail |-> <<"ImportError">>]
     /\ IsPending(Timer("probe", p))
     /\ running[p] = 0

C6_ForcedOnlyAfterExit ==
  \A s \in StopIds :
     stops[s].outcome = "forced" => pstate[stops[s].target] # "alive"

\* the 'exit' event of the worker that stop call s was made for, while the
\* grace timer of s is pending
ExitBeforeGrace(s) ==
  /\ stops[s].outcome = "pending"
  /\ IsPending(Timer("grace", s))
  /\ pstate[stops[s].target] = "alive"
  /\ pstate'[stops[s].target] = "exited"

Handle(r) == IF r = "server" THEN serverProcess ELSE clientProcess

\* C7: when the worker's exit event comes before the grace timer fires, the
\* stop call resolves 'stopped gracefully', the grace timer is cancelled, the
\* handle is released, and no SIGKILL is ever sent for that stop call.
C7_GracefulStop ==
  [][\A s \in StopIds :
        /\ ExitBeforeGrace(s)
             => /\ stops'[s].outcome = "graceful"
                /\ ~TimerIn(timers', Timer("grace", s))
                /\ Handle(stops[s].role)' = Null
        /\ stops'[s].outcome = "graceful"
             => /\ stops'[s].forced = Null
                /\ ~TimerIn(timers', Timer("grace", s))]_vars

\* C7 witness: a stop call has resolved 'stopped gracefully'
C7_Witness ==
  \E s \in StopIds :
     /\ stops[s].outcome = "graceful"
     /\ pstate[stops[s].target] = "exited"
     /\ Handle(stops[s].role) = Null

NoAddress(cc, a) == \A i \in 1..Len(cc) : cc[i].address # a

\* C8: the registry never holds two peers with the same address.
C8_OnePeerPerAddress ==
  \A i, j \in 1..Len(connectedClients) :
     i # j => connectedClients[i].address # connectedClients[j].address

\* C9: right after a disconnect line for an address has been handled, the
\* registry holds no peer with that address.
C9_DisconnectRemovesAddress ==
  [][\A p \in Pids, a \in Addrs :
        (ServerStdoutData(p, Line(DiscLine(a))) \/ ServerStderrData(p, Line(DiscLine(a))))
          => NoAddress(GetConnectedClients', a)]_vars

\* C10: once a stop of the server has resolved, gracefully or forced, the
\* registry is empty until a later start is accepted.  (With one worker at a
\* time no start is accepted while the stop closure is alive.)
C10_EmptyAfterStop ==
  \A s \in StopIds :
     (stops[s].role = "server" /\ stops[s].outcome \in {"graceful", "forced"})
       => GetConnectedClients = <<>>

\* C11: when a worker exits while its start attempt is unresolved, the start
\* call is rejected at that exit event, whatever the exit code; it does not
\* stay pending until the startup timeout.
C11_ExitRejectsPendingStart ==
  [][\A p \in Pids, code \in {0, 1, NullCode} :
        (outcome[p].kind = "pending" /\ (ServerExit(p, code) \/ ClientExit(p, code)))
          => outcome'[p].kind = "exited"]_vars

\* C12: at the exit event of a server worker the server handle is released, so
\* that the status read reports the server as stopped, the registry is
\* emptied, and one 'stopped' status event is sent; no other callback sends a
\* 'stopped' event for that process, so it is sent exactly once.
C12_ServerExitEffects ==
  [][\A p \in Pids :
        /\ (\E code \in {0, 1, NullCode} : ServerExit(p, code))
             => /\ serverProcess' = Null
                /\ GetServiceStatus'.server = "stopped"
                /\ GetConnectedClients' = <<>>
                /\ stopped'[p] = 1
        /\ (role[p] = "server" /\ role'[p] = "server" /\ stopped'[p] # stopped[p])
             => (pstate[p] = "alive" /\ pstate'[p] = "exited")
        /\ (role'[p] = "server" /\ pstate'[p] \in {"exited", "closed"})
             => stopped'[p] = 1]_vars

\* C12 witness: a server worker that was the held one has exited after peers
\* had connected and a stop had been requested; its 'stopped' event was sent
C12_Witness ==
  \E p \in Pids, s \in StopIds :
     /\ role[p] = "server" /\ pstate[p] = "exited" /\ stopped[p] = 1
     /\ stops[s].target = p /\ stops[s].outcome = "graceful"
     /\ GetServiceStatus.server = "stopped"
     /\ GetConnectedClients = <<>>

\* the startup timeout of the start call of p
StartupTimer(p) ==
  IF role[p] = "server" THEN Timer("serverTimeout", p) ELSE Timer("clientTimeout", p)

\* C13: for either role, a spawn error that occurs before the attempt resolves
\* rejects the start call at once with a failed-to-start error, releases the
\* handle and cancels the startup timeout; no later readiness signal makes
\* the attempt succeed.
C13_SpawnErrorRejects ==
  [][\A p \in Pids :
        /\ (outcome[p].kind = "pending" /\ (ServerError(p) \/ ClientError(p)))
             => /\ outcome'[p].kind = "spawnerror"
                /\ Handle(role[p])' = Null
                /\ ~TimerIn(timers', StartupTimer(p))
        /\ (outcome[p].kind = "spawnerror" /\ role'[p] = role[p])
             => outcome'[p] = outcome[p]]_vars

\* C14: a stop request for a role whose handle is not held returns the 'not
\* running' error and changes nothing: no signal, no timer, the handles and
\* the registry as before.
C14_StopWhileNotHeldRejected ==
  [][/\ (serverProcess = Null /\ StopServer)
          => (reply' = "Server is not running" /\ UNCHANGED state)
     /\ (clientProcess = Null /\ StopClient)
          => (reply' = "Client is not running" /\ UNCHANGED state)]_vars

\* C14 witness: a stop-server request was just rejected while a server worker
\* that the handle no longer holds is still running
C14_Witness ==
  /\ reply = "Server is not running"
  /\ serverProcess = Null
  /\ AliveWorkers("server") # {}

\* the texts of the 'server-log' and 'client-log' events among the events
LogLines(events) ==
  LET logs == SelectSeq(events, LAMBDA ev : ev.channel \in {"server-log", "client-log"})
  IN [i \in 1..Len(logs) |-> logs[i].arg]

\* the log lines the stdout or stderr handler of the start-server closure of p
\* sends when the chunk arrives with the buffer holding the given fragment
ServerLog(p, buffer, chunk, stream) ==
  LogLines(ServerLines(ServerEnv(p), p, Feed(buffer, DataToString(chunk)).lines,
                       stream).sent)

\* C15: however the bytes of a stream are cut into chunks, the same lines are
\* emitted: the lines sent for a chunk, followed by the lines sent for the
\* chunk after it, are the lines sent when the two arrive as one chunk.
C15_SplitInvariant ==
  [][\A p \in Pids, c1, c2 \in LineChunks :
        /\ ServerStdoutData(p, c1)
             => LogLines(sent') \o ServerLog(p, logBuffer'[p], c2, "stdout")
                  = ServerLog(p, logBuffer[p], c1 \o c2, "stdout")
        /\ ServerStderrData(p, c1)
             => LogLines(sent') \o ServerLog(p, errorBuffer'[p], c2, "stderr")
                  = ServerLog(p, errorBuffer[p], c1 \o c2, "stderr")]_vars

\* the chunk completes a line with the readiness phrase on a stream whose
\* buffer holds the given fragment
CompletesReadyLine(buffer, c) ==
  LET f == Feed(buffer, DataToString(c))
  IN \E i \in 1..Len(f.lines) : Includes(f.lines[i], ReadyToken)

\* C16: a readiness line completed on stdout or on stderr while the server
\* start attempt is unresolved resolves the start call as succeeded, whatever
\* chunks of the other stream came in between.
C16_ReadyLineResolves ==
  [][\A p \in Pids, c \in LineChunks :
        (role[p] = "server" /\ outcome[p].kind = "pending")
          => /\ (CompletesReadyLine(logBuffer[p], c) /\ ServerStdoutData(p, c))
                  => outcome'[p].kind = "started"
             /\ (CompletesReadyLine(errorBuffer[p], c) /\ ServerStderrData(p, c))
                  => outcome'[p].kind = "started"]_vars

\* C16 witness: the start call was just resolved by a readiness line on one
\* stream while the other stream holds the readiness phrase without its
\* line terminator
C16_Witness ==
  \E p \in Pids :
     /\ role[p] = "server" /\ outcome[p].kind = "started"
     /\ \E i \in 1..Len(sent) : sent[i] = Event("server-status", "running")
     /\ (errorBuffer[p] = <<ReadyToken>> \/ logBuffer[p] = <<ReadyToken>>)

\* the ways a start call resolves as succeeded
Succeeded == {"started", "verified", "connected", "assumed"}

\* the channel of the status events of a role
StatusChannel(r) == IF r = "server" THEN "server-status" ELSE "client-status"

\* how many times the event occurs among the events
Count(events, ev) == Cardinality({i \in 1..Len(events) : events[i] = ev})

\* C17: whenever a start call of either role resolves as succeeded, the
\* callback that resolves it sends one 'running' status event for that role.
C17_RunningOnSuccess ==
  [][\A p \in Pids :
        (outcome[p].kind = "pending" /\ outcome'[p].kind \in Succeeded)
          => Count(sent', Event(StatusChannel(role[p]), "running")) = 1]_vars

\* C18: the connection probe of a server start attempt is started at most
\* once, by the probe timer and only while the attempt is unresolved; a probe
\* that succeeds while the attempt is unresolved resolves it as succeeded; a
\* probe that fails leaves the attempt pending and its timeout armed.
C18_ProbeOnce ==
  [][\A p \in Pids :
        /\ (probe'[p] /\ ~probe[p])
             => /\ IsPending(Timer("probe", p))
                /\ outcome[p].kind = "pending" /\ outcome'[p].kind = "pending"
        /\ (role[p] = "server" /\ role'[p] = "server" /\ ~IsPending(Timer("probe", p)))
             => ~TimerIn(timers', Timer("probe", p))
        /\ (ProbeResponse(p) /\ outcome[p].kind = "pending")
             => outcome'[p].kind = "verified"
        /\ ProbeError(p)
             => /\ outcome'[p] = outcome[p]
                /\ timers' = timers
                /\ hasResolved'[p] = hasResolved[p]]_vars

\* C18 witness: the probe of a held worker was made and has failed; the
\* attempt is still pending and its timeout is still armed
C18_Witness ==
  \E p \in Pids :
     /\ serverProcess = p /\ pstate[p] = "alive" /\ outcome[p].kind = "pending"
     /\ ~IsPending(Timer("probe", p)) /\ ~probe[p]
     /\ IsPending(Timer("serverTimeout", p))

\* the line has the connect phrase followed by an address of four numeric
\* groups, and the address ends there
WellFormedConnect(line) ==
  \E i \in 1..(Len(line) - 1) :
     /\ line[i] = ConnToken /\ line[i + 1] \in Addrs
     /\ (i + 2 <= Len(line) => line[i + 2] # FifthGroup)

\* the line has 'Client ', an address of four numeric groups, ' disconnected'
WellFormedDisconnect(line) ==
  \E i \in 1..(Len(line) - 2) :
     line[i] = DiscHead /\ line[i + 1] \in Addrs /\ line[i + 2] = DiscTail

\* a line that is no well-formed peer line, or a well-formed disconnect line
\* for an address without an entry
Inert(line, cc) ==
  /\ ~WellFormedConnect(line)
  /\ WellFormedDisconnect(line) => NoAddress(cc, DisconnectionMatch(line))

NoPeerEvent(events) ==
  \A i \in 1..Len(events) :
     events[i].channel \notin {"client-connected", "client-disconnected"}

\* C19: a chunk whose lines are all no well-formed peer lines (readiness,
\* error and informational lines, connect lines with a malformed address),
\* or disconnect lines for an address without an entry, leaves the registry
\* unchanged and sends no peer event.
C19_InertLines ==
  [][\A p \in Pids, c \in RegistryChunks :
        /\ (/\ ServerStdoutData(p, c)
            /\ \A i \in 1..Len(Feed(logBuffer[p], DataToString(c)).lines) :
                  Inert(Feed(logBuffer[p], DataToString(c)).lines[i], connectedClients))
             => (GetConnectedClients' = GetConnectedClients /\ NoPeerEvent(sent'))
        /\ (/\ ServerStderrData(p, c)
            /\ \A i \in 1..Len(Feed(errorBuffer[p], DataToString(c)).lines) :
                  Inert(Feed(errorBuffer[p], DataToString(c)).lines[i], connectedClients))
             => (GetConnectedClients' = GetConnectedClients /\ NoPeerEvent(sent'))]_vars

\* C20: the handle that holds a running worker is released only by the step
\* that is the exit event of that worker; no timeout, dependency error or
\* forced stop releases it earlier.
C20_ReleasedOnlyOnExit ==
  [][\A p \in Pids :
        (/\ pstate[p] = "alive"
         /\ \/ serverProcess = p /\ serverProcess' # p
            \/ clientProcess = p /\ clientProcess' # p)
          => pstate'[p] = "exited"]_vars

\* the ways a server start call ends as a success or as a fatal failure
Resolved == {"started", "verified", "dependency", "spawnerror", "exited"}

\* C21: once a server start attempt has resolved as succeeded or as a fatal
\* failure, neither its startup timeout nor its probe timer is pending, so
\* no timer of the attempt fires afterwards.
C21_NoTimerAfterResolution ==
  \A p \in Pids :
     (role[p] = "server" /\ outcome[p].kind \in Resolved)
       => /\ ~IsPending(Timer("serverTimeout", p))
          /\ ~IsPending(Timer("probe", p))

\* C22: whenever the status read reports the server as stopped, the list of
\* connected peers is empty: every path to the stopped state clears the
\* registry.
C22_StoppedImpliesEmpty ==
  GetServiceStatus.server = "stopped" => GetConnectedClients = <<>>

\* a stop call of the role has sent its termination signal and the exit of
\* the worker is not confirmed yet
StopInProgress(r) ==
  \E s \in StopIds :
     /\ stops[s].role = r /\ stops[s].outcome = "pending"
     /\ pstate[stops[s].target] = "alive"

\* C23: while a stop of a role is in progress, a second stop of the role is
\* rejected with the 'not running' error and sends no signal, and a start of
\* the role is rejected with the 'already running' error.
C23_NoOperationWhileStopping ==
  [][/\ (StopInProgress("server") /\ StopServer)
          => (reply' = "Server is not running" /\ UNCHANGED state)
     /\ (StopInProgress("server") /\ \E ok \in BOOLEAN : StartServer(ok))
          => (reply' = "Server is already running" /\ UNCHANGED state)]_vars

\* the ways a start call is rejected
Failed == {"dependency", "timeout", "spawnerror", "exited"}

\* the start attempt of worker p has failed: its call was rejected, or the
\* spawn of its worker failed and the 'error' event was emitted
AttemptFailed(p) == outcome[p].kind \in Failed \/ pstate[p] = "failed"

\* C24: after a failed start attempt of a role (dependency error, startup
\* timeout, spawn error, exit before readiness) the next start request for
\* that role is accepted, not rejected as 'already running'.
C24_StartAfterFailure ==
  [][/\ (/\ \E ok \in BOOLEAN : StartServer(ok)
         /\ \E p \in Pids : /\ role[p] = "server" /\ AttemptFailed(p)
                            /\ serverProcess \in {Null, p})
          => (reply' = "" /\ serverProcess' # Null)
     /\ (/\ \E ok \in BOOLEAN : StartClient(ok)
         /\ \E p \in Pids : /\ role[p] = "client" /\ AttemptFailed(p)
                            /\ clientProcess \in {Null, p})
          => (reply' = "" /\ clientProcess' # Null)]_vars

\* a chunk holding a line terminator arrives on a stream of worker p
TerminatorArrives(p) ==
  \/ \E c \in FragmentChunks :
        Includes(c, NL) /\ (ServerStdoutData(p, c) \/ ServerStderrData(p, c))
  \/ \E c \in ClientFragmentChunks :
        Includes(c, NL) /\ (ClientStdoutData(p, c) \/ ClientStderrData(p, c))

LineEvents == {"server-log", "client-log", "client-connected", "client-disconnected"}

\* C25: text whose line terminator has not arrived has no effect.  A start
\* call is resolved by the readiness line or rejected for a dependency error
\* only in a step in which a terminator arrives on a stream of its worker; a
\* log or peer event is sent, and a peer enters the registry, only in such a
\* step.  The exit and the close of a worker are no such steps: what is left
\* in a buffer then is never handled.
C25_FragmentHasNoEffect ==
  [][/\ \A p \in Pids :
          (/\ outcome[p].kind = "pending"
           /\ outcome'[p].kind \in {"started", "connected", "dependency"})
            => TerminatorArrives(p)
     /\ (\E i \in 1..Len(sent') : sent'[i].channel \in LineEvents)
          => \E p \in Pids : TerminatorArrives(p)
     /\ (connectedClients' # connectedClients /\ connectedClients' # <<>>)
          => \E p \in Pids : TerminatorArrives(p)]_vars

\* C25 witness: a server worker has ended and its streams are closed with the
\* readiness line in the stderr buffer and a peer line in the stdout buffer,
\* both without terminator: the start call was not resolved by them and the
\* registry is empty
C25_Witness ==
  \E p \in Pids :
     /\ role[p] = "server" /\ pstate[p] = "closed"
     /\ logBuffer[p] = ConnLine("10.0.0.5")
     /\ errorBuffer[p] = <<ReadyToken>>
     /\ outcome[p].kind = "exited"
     /\ connectedClients = <<>>

\* the line has a character that is not white space
Written(line) == \E i \in 1..Len(line) : line[i] # Blank

\* the log events are, in order, one for each written line: the line with
\* its terminator, on stderr possibly behind the 'ERROR: ' annotation
LoggedOnce(events, lines, stream) ==
  LET w == SelectSeq(lines, Written)
      logs == LogLines(events)
  IN /\ Len(logs) = Len(w)
     /\ \A i \in 1..Len(w) :
           \/ logs[i] = w[i] \o <<NL>>
           \/ stream = "stderr" /\ logs[i] = <<"ERROR: ">> \o w[i] \o <<NL>>

\* nothing but the buffers of the streams is touched and nothing is sent
NotClassified ==
  /\ sent' = <<>>
  /\ UNCHANGED <<serverProcess, clientProcess, connectedClients, hasResolved,
                 outcome, running, timers, pstate, stops>>

\* C26: a chunk of complete lines, on stdout or stderr of the server or the
\* client worker, makes the handler send one log event for each line that is
\* not empty or white space only, in the order of the lines; a chunk whose
\* lines are all empty or white space only sends nothing and changes nothing.
C26_OneLogEventPerLine ==
  [][\A p \in Pids :
        /\ \A c \in ClassifyChunks :
              LET out == Feed(logBuffer[p], DataToString(c)).lines
                  err == Feed(errorBuffer[p], DataToString(c)).lines
              IN /\ ServerStdoutData(p, c)
                      => /\ LoggedOnce(sent', out, "stdout")
                         /\ (\A i \in 1..Len(out) : ~Written(out[i])) => NotClassified
                 /\ ServerStderrData(p, c)
                      => /\ LoggedOnce(sent', err, "stderr")
                         /\ (\A i \in 1..Len(err) : ~Written(err[i])) => NotClassified
        /\ \A c \in ClientClassifyChunks :
              LET out == Feed(logBuffer[p], DataToString(c)).lines
                  err == Feed(errorBuffer[p], DataToString(c)).lines
              IN /\ ClientStdoutData(p, c)
                      => /\ LoggedOnce(sent', out, "stdout")
                         /\ (\A i \in 1..Len(out) : ~Written(out[i])) => NotClassified
                 /\ ClientStderrData(p, c)
                      => /\ LoggedOnce(sent', err, "stderr")
                         /\ (\A i \in 1..Len(err) : ~Written(err[i])) => NotClassified]_vars

\* C26 witness: the client's stderr handler has sent two log events for a
\* chunk of three lines of which the second is blank
C26_Witness ==
  /\ Len(sent) = 2
  /\ sent[1] = Event("client-log", Line(<<"info">>))
  /\ sent[2] = Event("client-log", <<"ERROR: ", "Traceback", NL>>)

\* C27: a line with a dependency-error indicator on stdout of the server
\* worker, while the start call is pending, rejects the call as a dependency
\* error, as it does on stderr.
C27_DependencyOnStdout ==
  [][\A p \in Pids, c \in ClassifyChunks :
        (/\ ServerStdoutData(p, c)
         /\ outcome[p].kind = "pending"
         /\ \E i \in 1..Len(Feed(logBuffer[p], DataToString(c)).lines) :
               IncludesAny(Feed(logBuffer[p], DataToString(c)).lines[i], DepTokens))
          => outcome'[p].kind = "dependency"]_vars

\* the line has the shape of a peer-connected or a peer-disconnected line
PeerLine(line) == ConnectionMatch(line) # NoMatch \/ DisconnectionMatch(line) # NoMatch

\* C28: peer lines are peer events only.  A chunk of lines that all have the
\* shape of a peer line, arriving on stdout or stderr of the server worker
\* while its start call is pending, leaves the call pending, whatever else
\* the lines contain: it neither resolves nor rejects it.
C28_PeerLinePrecedence ==
  [][\A p \in Pids, c \in ClassifyChunks :
        /\ (/\ ServerStdoutData(p, c)
            /\ outcome[p].kind = "pending"
            /\ \A i \in 1..Len(Feed(logBuffer[p], DataToString(c)).lines) :
                  PeerLine(Feed(logBuffer[p], DataToString(c)).lines[i]))
             => (outcome'[p].kind = "pending" /\ hasResolved'[p] = hasResolved[p])
        /\ (/\ ServerStderrData(p, c)
            /\ outcome[p].kind = "pending"
            /\ \A i \in 1..Len(Feed(errorBuffer[p], DataToString(c)).lines) :
                  PeerLine(Feed(errorBuffer[p], DataToString(c)).lines[i]))
             => (outcome'[p].kind = "pending" /\ hasResolved'[p] = hasResolved[p])]_vars

\* ERROR:, CRITICAL:, Traceback, Exception
GenericTokens == ErrTokens \ DepTokens

\* the line has a generic error indicator and no dependency-error indicator
GenericErrorLine(line) ==
  IncludesAny(line, GenericTokens) /\ ~IncludesAny(line, DepTokens)

\* the phrase the start call of the role waits for
ReadyPhrase(r) == IF r = "server" THEN ReadyToken ELSE ClientReadyToken

LogChannel(r) == IF r = "server" THEN "server-log" ELSE "client-log"

\* the lines are sent as annotated log lines, and that is all: handles, start
\* attempts, registry and reported status are as before
AnnotatedOnly(r, lines) ==
  /\ sent' = [i \in 1..Len(lines) |->
                Event(LogChannel(r), <<"ERROR: ">> \o lines[i] \o <<NL>>)]
  /\ UNCHANGED <<serverProcess, clientProcess, connectedClients, hasResolved,
                 outcome, running, timers>>
  /\ GetServiceStatus' = GetServiceStatus

\* all the lines have a generic error indicator and no dependency-error
\* indicator
AllGenericError(lines) == \A i \in 1..Len(lines) : GenericErrorLine(lines[i])

\* none of the lines has the readiness phrase of the role or the shape of a
\* peer line
NoOtherKind(r, lines) ==
  \A i \in 1..Len(lines) :
     ~Includes(lines[i], ReadyPhrase(r)) /\ ~PeerLine(lines[i])

\* C29 as stated: stderr lines with a generic error indicator and no
\* dependency-error indicator are sent as annotated log lines and change
\* nothing, in any state.
C29_GenericErrorInert ==
  [][\A p \in Pids :
        /\ \A c \in ClassifyChunks :
              LET lines == Feed(errorBuffer[p], DataToString(c)).lines
              IN (AllGenericError(lines) /\ ServerStderrData(p, c))
                   => AnnotatedOnly("server", lines)
        /\ \A c \in ClientClassifyChunks :
              LET lines == Feed(errorBuffer[p], DataToString(c)).lines
              IN (AllGenericError(lines) /\ ClientStderrData(p, c))
                   => AnnotatedOnly("client", lines)]_vars

\* C29, amended: stderr lines with a generic error indicator, no
\* dependency-error indicator, without the readiness phrase of the role and
\* not of the shape of a peer line are sent as annotated log lines and
\* change nothing, in any state.
C29_ErrorOnlyLineInert ==
  [][\A p \in Pids :
        /\ \A c \in ClassifyChunks :
              LET lines == Feed(errorBuffer[p], DataToString(c)).lines
              IN (/\ AllGenericError(lines) /\ NoOtherKind("server", lines)
                  /\ ServerStderrData(p, c))
                   => AnnotatedOnly("server", lines)
        /\ \A c \in ClientClassifyChunks :
              LET lines == Feed(errorBuffer[p], DataToString(c)).lines
              IN (/\ AllGenericError(lines) /\ NoOtherKind("client", lines)
                  /\ ClientStderrData(p, c))
                   => AnnotatedOnly("client", lines)]_vars

\* C29 witness: the stderr handler of the server has sent an error-shaped
\* line as an annotated log line while the start call is pending
C29_Witness ==
  /\ sent = <<Event("server-log", <<"ERROR: ", "ERROR:", "info", NL>>)>>
  /\ \E p \in Pids : /\ role[p] = "server" /\ serverProcess = p
                     /\ outcome[p].kind = "pending"

\* the ids of the entries of the registry
Ids(cc) == {cc[i].id : i \in 1..Len(cc)}

\* C30: the id given to a peer that is inserted into the registry is not the
\* id of an entry the registry holds at that moment.
C30_FreshIds ==
  [][\A i \in 1..Len(sent') :
        sent'[i].channel = "client-connected"
          => sent'[i].arg.id \notin Ids(connectedClients)]_vars

\* the step sends no signal to a worker other than p and does not release a
\* handle that holds a worker other than p
Spares(p) ==
  \A q \in Pids \ {p} :
     /\ psig'[q] = psig[q]
     /\ serverProcess = q => serverProcess' = q
     /\ clientProcess = q => clientProcess' = q

\* C31: the callback of a timer of a start call (startup timeout, delayed
\* probe) acts on the worker that call spawned only, and the grace timer of
\* a stop call on the worker that was held when the stop was accepted: no
\* signal is sent to another worker and the handle of another worker is not
\* released.
C31_TimersKeepToTheirWorker ==
  [][/\ \A p \in Pids :
          (ServerTimeout(p) \/ ProbeTimer(p) \/ ClientTimeout(p)) => Spares(p)
     /\ \A s \in StopIds :
          (ServerGraceTimer(s) \/ ClientGraceTimer(s)) => Spares(stops[s].target)]_vars

\* the handle of the role of worker p holds another worker
OtherHeld(p) == Handle(role[p]) \notin {Null, p}

\* the 'exit' event of worker p, or data on one of its streams
WorkerEvent(p) ==
  \/ \E code \in {0, 1, NullCode} : ServerExit(p, code) \/ ClientExit(p, code)
  \/ \E c \in LifecycleChunks : ServerStdoutData(p, c) \/ ServerStderrData(p, c)
  \/ \E c \in ClientLifecycleChunks : ClientStdoutData(p, c) \/ ClientStderrData(p, c)

NoStatusEvent(events) ==
  \A i \in 1..Len(events) :
     events[i].channel \notin {"server-status", "client-status"}

\* C32: when the handle of a role holds a later worker, the exit event of an
\* earlier worker of that role, and data on its streams, leave the handle
\* and the registry as they are and send no status event.
C32_EarlierWorkerEvents ==
  [][\A p \in Pids :
        (OtherHeld(p) /\ WorkerEvent(p))
          => /\ Handle(role[p])' = Handle(role[p])
             /\ connectedClients' = connectedClients
             /\ NoStatusEvent(sent')]_vars

\* C34: a start call of either role that was accepted and is pending is
\* eventually resolved or rejected, whatever the worker and the user do, when
\* the timers that are due fire.
C34_StartSettles ==
  \A p \in Pids :
     (role[p] # "none" /\ outcome[p].kind = "pending")
       ~> (outcome[p].kind # "pending")

\* C34 witness: a client worker has exited with code 0 before it was ready,
\* which left the start call pending, and the timeout has rejected the call
C34_Witness ==
  \E p \in Pids :
     /\ role[p] = "client" /\ pstate[p] \in {"exited", "closed"}
     /\ outcome[p].kind = "timeout"

\* C33: the grace timer callback of a stop call never runs with the handle
\* missing (it would throw and resolve nothing), and every accepted stop call
\* is eventually resolved, as stopped gracefully or as stopped (forced).
C33_StopResolves ==
  /\ [](\A s \in StopIds : ~stops[s].threw)
  /\ \A s \in StopIds :
        (stops[s].outcome = "pending") ~> (stops[s].outcome \in {"graceful", "forced"})

\* C35: a start call is resolved as succeeded only when the worker it
\* spawned is held by the handle of its role and has not exited.
C35_SuccessOfLiveHeldWorker ==
  [][\A p \in Pids :
        (outcome[p].kind = "pending" /\ outcome'[p].kind \in Succeeded)
          => (Handle(role[p]) = p /\ pstate[p] = "alive")]_vars

\* a stop-server call was accepted while the start call of worker p was
\* pending, and is pending itself
StoppedWhileStarting(p, s) ==
  /\ stops[s].role = "server" /\ stops[s].target = p
  /\ stops[s].outcome = "pending"
  /\ outcome[p].kind = "pending"

\* C36: when the worker exits after a stop-server call made while its start
\* call was pending, the exit rejects the start call, resolves the stop call
\* and releases the handle, and no timer of the start call (timeout, probe)
\* is left to fire.
C36_StopDuringStart ==
  [][\A p \in Pids, s \in StopIds :
        (StoppedWhileStarting(p, s) /\ \E code \in {0, 1, NullCode} : ServerExit(p, code))
          => /\ outcome'[p].kind = "exited"
             /\ stops'[s].outcome = "graceful"
             /\ serverProcess' = Null
             /\ ~TimerIn(timers', Timer("serverTimeout", p))
             /\ ~TimerIn(timers', Timer("probe", p))]_vars

\* the listeners of the window, applied to the ids of the devices it shows:
\* onClientConnected adds the peer unless its id is there, onClientDisconnected
\* removes it by id, onServerStatus empties the list on 'stopped'
RECURSIVE Replay(_, _)
Replay(devices, events) ==
  IF events = <<>> THEN devices
  ELSE LET ev == Head(events)
       IN Replay(CASE ev.channel = "client-connected" -> devices \cup {ev.arg.id}
                   [] ev.channel = "client-disconnected" -> devices \ {ev.arg}
                   [] ev.channel = "server-status" /\ ev.arg = "stopped" -> {}
                   [] OTHER -> devices,
                 Tail(events))

\* C37: the peers a listener of the events holds are the peers of the
\* registry in every state: both are empty at first, and each callback that
\* runs sends the events that take the listener from the registry before it
\* to the registry after it.
C37_EventsMirrorRegistry ==
  [][Replay(Ids(connectedClients), sent') = Ids(connectedClients')]_vars

\* a chunk of lines arrives on stdout or stderr of a server worker
ServerData ==
  \E q \in Pids, c \in LifecycleChunks : ServerStdoutData(q, c) \/ ServerStderrData(q, c)

\* C38: while the worker of a server start call that has resolved as
\* succeeded is held, the lines that arrive on the server's stdout and stderr
\* leave the handle, the reported status and the outcome of the call as they
\* are.
C38_LinesAfterSuccess ==
  [][\A p \in Pids :
        (/\ role[p] = "server" /\ serverProcess = p
         /\ outcome[p].kind \in {"started", "verified"}
         /\ ServerData)
          => /\ serverProcess' = p
             /\ GetServiceStatus' = GetServiceStatus
             /\ outcome'[p] = outcome[p]]_vars

\* a request, a timer or a worker event of the client role
ClientRoleStep ==
  \/ \E ok \in BOOLEAN : StartClient(ok)
  \/ StopClient
  \/ \E p \in Pids : ClientTimeout(p) \/ ClientError(p)
  \/ \E s \in StopIds : ClientGraceTimer(s)
  \/ \E p \in Pids, c \in ClientLifecycleChunks :
        ClientStdoutData(p, c) \/ ClientStderrData(p, c)
  \/ \E p \in Pids, code \in {0, 1, NullCode} : ClientExit(p, code)

\* a request, a timer, a probe or a worker event of the server role
ServerRoleStep ==
  \/ \E ok \in BOOLEAN : StartServer(ok)
  \/ StopServer
  \/ \E p \in Pids : \/ ServerTimeout(p) \/ ServerError(p)
                     \/ ProbeTimer(p) \/ ProbeResponse(p) \/ ProbeError(p)
  \/ \E s \in StopIds : ServerGraceTimer(s)
  \/ \E p \in Pids, c \in RoleChunks :
        ServerStdoutData(p, c) \/ ServerStderrData(p, c)
  \/ \E p \in Pids, code \in {0, 1, NullCode} : ServerExit(p, code)

\* C39: a request, a timer or a worker event of the client role leaves the
\* server handle and the peer registry as they are, and one of the server
\* role leaves the client handle as it is.
C39_RolesIndependent ==
  [][/\ ClientRoleStep => UNCHANGED <<serverProcess, connectedClients>>
     /\ ServerRoleStep => UNCHANGED clientProcess]_vars

\* C39 witness: the client worker has exited while the server worker is held
\* and a peer is in the registry
C39_Witness ==
  /\ serverProcess # Null
  /\ connectedClients # <<>>
  /\ clientProcess = Null
  /\ sent = <<Event("client-status", "stopped")>>

====
